---- MODULE Spec2Model ----
(***************************************************************************)
(* Model of exporters/metric/cortex/pipeline/generators/test.py: the       *)
(* generator that writes a data file of kind-tagged random batches and an  *)
(* answer file with the summary expected for every batch.                  *)
(*                                                                         *)
(* The "SETTINGS FOR THE GENERATOR" block (lines 5-29) is configuration;   *)
(* the variable settings holds one configuration, fixed for a run.  The    *)
(* literals the loop body hard-codes (-25, 0, 25 in the hist branch, the   *)
(* slot numbers) are kept as literals.  numpy's float arithmetic is        *)
(* rendered with exact rationals <<numerator, denominator>>.               *)
(***************************************************************************)
EXTENDS Integers, Sequences, FiniteSets, TLC

VARIABLES settings, pc, i, answers, data_file, results_file, exception

vars == <<settings, pc, i, answers, data_file, results_file, exception>>

\* ---------------------------------------------------------------- bounds
MaxNumValues == 3
MaxRecords == 2

\* ------------------------------------------------------------- settings
value_lower_limit == -50
value_upper_limit == 50
histogram_boundaries == <<-25, 0, 25>>
\* quantiles = [0.25, 0.5, 0.75], written in hundredths
quantiles == <<25, 50, 75>>
aggregations == <<"hist", "dist", "sum", "mmsc", "lval">>

\* The five kinds the if/elif chains know.
KnownKinds == {"sum", "lval", "mmsc", "dist", "hist"}

\* Lists the aggregations setting is drawn from: the shipped list, and the
\* shipped list extended by a kind of the Go SDK the chains do not handle.
AggregationChoices == {aggregations, Append(aggregations, "exact")}

\* Values of range(value_lower_limit, value_upper_limit) that batches are
\* enumerated over: the ends of the range and the neighbours of each
\* histogram boundary.
GridValues == {-50, -26, -25, -1, 0, 24, 25, 49}

\* Batches of the concrete scenarios (a ten-element batch that needs
\* value_upper_limit = 51, and [1,2,3,4,5]).
HistScenario == <<-50, -30, -10, 0, 10, 30, 50, 5, 15, -5>>
QuantileScenario == <<1, 2, 3, 4, 5>>
ScenarioBatches == {HistScenario, QuantileScenario, <<5, 3, 1, 4, 2>>, <<10>>}

\* Sequences of n distinct elements of S, in any order.
Injective(S, n) ==
    {f \in [1..n -> S] : \A a, b \in 1..n : a # b => f[a] # f[b]}

\* Outcomes of random.sample(...) the model enumerates.
CandidateBatches ==
    UNION {Injective(GridValues, n) : n \in 0..MaxNumValues} \cup ScenarioBatches

\* range(lo, hi)
range(lo, hi) == {x \in lo..(hi - 1) : TRUE}

\* random.sample(range(lo, hi), n): every ordered selection of n distinct
\* elements of the range (restricted to the enumerated candidates).
random_sample(lo, hi, n) ==
    {V \in CandidateBatches :
        /\ Len(V) = n
        /\ \A j \in 1..n : V[j] \in range(lo, hi)
        /\ \A a, b \in 1..n : a # b => V[a] # V[b]}

\* Configurations of the settings block.
\*  - the shipped value range with one record and a bounded batch length,
\*  - the scenario batches (lengths 5 and 10, the latter with upper limit 51),
\*  - a two-element range around the boundary -25 with several records.
OracleSettings ==
    {[num_records |-> 1, num_values |-> n,
      value_lower_limit |-> value_lower_limit,
      value_upper_limit |-> value_upper_limit,
      aggregations |-> a] :
        n \in (0..MaxNumValues) \cup {5}, a \in AggregationChoices}

ScenarioSettings ==
    {[num_records |-> 1, num_values |-> 10,
      value_lower_limit |-> value_lower_limit,
      value_upper_limit |-> value_upper_limit + 1,
      aggregations |-> aggregations]}

LoopSettings ==
    {[num_records |-> r, num_values |-> n,
      value_lower_limit |-> -26,
      value_upper_limit |-> -24,
      aggregations |-> a] :
        r \in 0..MaxRecords, n \in 0..MaxNumValues, a \in AggregationChoices}

Settings == OracleSettings \cup ScenarioSettings \cup LoopSettings

\* ------------------------------------------------------ python built-ins
RECURSIVE py_sum(_)
py_sum(s) == IF s = <<>> THEN 0 ELSE s[1] + py_sum(Tail(s))

RECURSIVE py_min(_)
py_min(s) ==
    IF Len(s) = 1 THEN s[1]
    ELSE LET m == py_min(Tail(s)) IN IF s[1] < m THEN s[1] ELSE m

RECURSIVE py_max(_)
py_max(s) ==
    IF Len(s) = 1 THEN s[1]
    ELSE LET m == py_max(Tail(s)) IN IF s[1] > m THEN s[1] ELSE m

\* int(x) of a rational x = <<num, den>>, den > 0: truncation toward zero.
py_int(x) ==
    IF x[1] >= 0 THEN x[1] \div x[2] ELSE -((-x[1]) \div x[2])

\* Ascending sort (insertion sort).
RECURSIVE insert_sorted(_, _)
insert_sorted(x, s) ==
    IF s = <<>> THEN <<x>>
    ELSE IF x <= s[1] THEN <<x>> \o s
    ELSE <<s[1]>> \o insert_sorted(x, Tail(s))

RECURSIVE sort_ascending(_)
sort_ascending(s) ==
    IF s = <<>> THEN <<>> ELSE insert_sorted(s[1], sort_ascending(Tail(s)))

\* np.percentile(a, q) with the default linear method, for a non-empty a.
\* q is the PERCENTAGE passed to numpy, here in hundredths (q = 25 stands
\* for the argument 0.25, i.e. the 0.25th percentile).  The virtual index is
\* q/100 * (n-1), i.e. q*(n-1)/10000 in these units.
np_percentile(a, q) ==
    LET s == sort_ascending(a)
        n == Len(s)
        virtual == q * (n - 1)
        lo == virtual \div 10000
        rem == virtual % 10000
        hi == IF lo + 1 > n - 1 THEN n - 1 ELSE lo + 1
    IN  <<10000 * s[lo + 1] + (s[hi + 1] - s[lo + 1]) * rem, 10000>>

\* Variant of count_below: the comparison admits the boundary itself.
count_below_le(values, b) == Len(SelectSeq(values, LAMBDA x : x <= b))

\* len([i for i in values if i < b])
count_below(values, b) == Len(SelectSeq(values, LAMBDA x : x < b))

\* ------------------------------------------------------------ answers
\* The default of the inner defaultdict: a list of 11 zeros (slots 0..10).
default_slots == [j \in 0..10 |-> 0]

\* answers is the nested defaultdict, kept as the sequence of its entries in
\* insertion order; an entry is answers[agg_type][agg_properties].
has_entry(ans, k, p) ==
    \E e \in 1..Len(ans) : ans[e].agg_type = k /\ ans[e].agg_properties = p

\* answers[k][p][j] = v: the entry is created with the default on first use.
set_slot(ans, k, p, j, v) ==
    IF has_entry(ans, k, p)
    THEN [e \in 1..Len(ans) |->
            IF ans[e].agg_type = k /\ ans[e].agg_properties = p
            THEN [ans[e] EXCEPT !.slots[j] = v]
            ELSE ans[e]]
    ELSE Append(ans, [agg_type |-> k, agg_properties |-> p,
                      slots |-> [default_slots EXCEPT ![j] = v]])

\* name, description and label of record idx: "p2name{i}_{agg_type}",
\* "description{i}", "{key{i}:value{i}}".
agg_properties_of(idx, agg_type) ==
    [name |-> [prefix |-> "p2name", index |-> idx, agg_type |-> agg_type],
     description |-> idx,
     label |-> idx]

\* ------------------------------------------- branches of the if/elif chain
sum_branch(ans, p, values) ==
    set_slot(ans, "sum", p, 0, py_sum(values))

\* Variant of lval_branch: the first element instead of the last.
lval_branch_first(ans, p, values) ==
    set_slot(ans, "lval", p, 0, values[1])

\* values is non-empty here (values[len(values) - 1] raises otherwise).
lval_branch(ans, p, values) ==
    set_slot(ans, "lval", p, 0, values[Len(values)])

\* Variant of mmsc_branch: the count is the literal 8 of the shipped
\* settings instead of the configured num_values.
mmsc_branch_fixed_count(ans, p, values, num_values) ==
    LET a0 == set_slot(ans, "mmsc", p, 0, py_sum(values))
        a1 == set_slot(a0, "mmsc", p, 1, py_min(values))
        a2 == set_slot(a1, "mmsc", p, 2, py_max(values))
    IN  set_slot(a2, "mmsc", p, 3, 8)

mmsc_branch(ans, p, values, num_values) ==
    LET a0 == set_slot(ans, "mmsc", p, 0, py_sum(values))
        a1 == set_slot(a0, "mmsc", p, 1, py_min(values))
        a2 == set_slot(a1, "mmsc", p, 2, py_max(values))
    IN  set_slot(a2, "mmsc", p, 3, num_values)

\* Variant of dist_branch: quantiles[2] goes to slot 8 and quantiles[0] to
\* slot 10.
dist_branch_swapped(ans, p, values, num_values) ==
    LET a0 == set_slot(ans, "dist", p, 0, py_sum(values))
        a1 == set_slot(a0, "dist", p, 1, py_min(values))
        a2 == set_slot(a1, "dist", p, 2, py_max(values))
        a3 == set_slot(a2, "dist", p, 3, num_values)
        a8 == set_slot(a3, "dist", p, 8, py_int(np_percentile(values, quantiles[3])))
        a9 == set_slot(a8, "dist", p, 9, py_int(np_percentile(values, quantiles[2])))
    IN  set_slot(a9, "dist", p, 10, py_int(np_percentile(values, quantiles[1])))

dist_branch(ans, p, values, num_values) ==
    LET a0 == set_slot(ans, "dist", p, 0, py_sum(values))
        a1 == set_slot(a0, "dist", p, 1, py_min(values))
        a2 == set_slot(a1, "dist", p, 2, py_max(values))
        a3 == set_slot(a2, "dist", p, 3, num_values)
        a8 == set_slot(a3, "dist", p, 8, py_int(np_percentile(values, quantiles[1])))
        a9 == set_slot(a8, "dist", p, 9, py_int(np_percentile(values, quantiles[2])))
    IN  set_slot(a9, "dist", p, 10, py_int(np_percentile(values, quantiles[3])))

\* Variant of hist_branch: disjoint [lower, upper) buckets.
hist_branch_disjoint(ans, p, values, num_values) ==
    LET a0 == set_slot(ans, "hist", p, 0, py_sum(values))
        a3 == set_slot(a0, "hist", p, 3, num_values)
        a4 == set_slot(a3, "hist", p, 4, count_below(values, -25))
        a5 == set_slot(a4, "hist", p, 5,
                       count_below(values, 0) - count_below(values, -25))
        a6 == set_slot(a5, "hist", p, 6,
                       count_below(values, 25) - count_below(values, 0))
    IN  set_slot(a6, "hist", p, 7, num_values - count_below(values, 25))

\* Variant of hist_branch: the (-inf, -25) and (-inf, 25) counts land in
\* each other's slot.
hist_branch_swapped(ans, p, values, num_values) ==
    LET a0 == set_slot(ans, "hist", p, 0, py_sum(values))
        a3 == set_slot(a0, "hist", p, 3, num_values)
        a4 == set_slot(a3, "hist", p, 4, count_below(values, 25))
        a5 == set_slot(a4, "hist", p, 5, count_below(values, 0))
        a6 == set_slot(a5, "hist", p, 6, count_below(values, -25))
    IN  set_slot(a6, "hist", p, 7, num_values)

hist_branch(ans, p, values, num_values) ==
    LET a0 == set_slot(ans, "hist", p, 0, py_sum(values))
        a3 == set_slot(a0, "hist", p, 3, num_values)
        a4 == set_slot(a3, "hist", p, 4, count_below(values, -25))
        a5 == set_slot(a4, "hist", p, 5, count_below(values, 0))
        a6 == set_slot(a5, "hist", p, 6, count_below(values, 25))
    IN  set_slot(a6, "hist", p, 7, num_values)

\* The exception one pass of the chain raises, "none" if it completes:
\* values[-1] of an empty list, min() of an empty list.
chain_exception(agg_type, values) ==
    IF values = <<>> /\ agg_type = "lval" THEN "IndexError"
    ELSE IF values = <<>> /\ agg_type \in {"mmsc", "dist"} THEN "ValueError"
    ELSE "none"

\* answers after one pass of the chain.  A pass that raises keeps what was
\* stored before the raising statement: nothing for lval (the right-hand
\* side is evaluated first), slot 0 for mmsc and dist.  A kind that matches
\* no branch stores nothing.
chain_answers(ans, agg_type, p, values, num_values) ==
    IF agg_type = "sum" THEN sum_branch(ans, p, values)
    ELSE IF agg_type = "lval"
         THEN IF values = <<>> THEN ans ELSE lval_branch(ans, p, values)
    ELSE IF agg_type = "mmsc"
         THEN IF values = <<>> THEN set_slot(ans, "mmsc", p, 0, py_sum(values))
              ELSE mmsc_branch(ans, p, values, num_values)
    ELSE IF agg_type = "dist"
         THEN IF values = <<>> THEN set_slot(ans, "dist", p, 0, py_sum(values))
              ELSE dist_branch(ans, p, values, num_values)
    ELSE IF agg_type = "hist" THEN hist_branch(ans, p, values, num_values)
    ELSE ans

\* ------------------------------------------------------------ answer file
\* Keys of the outer dictionary in insertion order.
RECURSIVE kinds_in_order(_, _)
kinds_in_order(ans, seen) ==
    IF ans = <<>> THEN <<>>
    ELSE IF ans[1].agg_type \in seen THEN kinds_in_order(Tail(ans), seen)
    ELSE <<ans[1].agg_type>> \o
         kinds_in_order(Tail(ans), seen \cup {ans[1].agg_type})

\* One row of the answer file: the fields the kind's f-string selects.
answer_row(e) ==
    LET s == e.slots
        fields ==
            IF e.agg_type \in {"sum", "lval"} THEN <<s[0]>>
            ELSE IF e.agg_type = "mmsc" THEN <<s[0], s[1], s[2], s[3]>>
            ELSE IF e.agg_type = "dist"
                 THEN <<s[0], s[1], s[2], s[3], s[8], s[9], s[10]>>
            ELSE IF e.agg_type = "hist"
                 THEN <<s[0], s[3], s[4], s[5], s[6], s[7]>>
            ELSE <<>>
    IN  [agg_properties |-> e.agg_properties, agg_type |-> e.agg_type,
         fields |-> fields]

\* for agg_type in answers: for agg_properties in answers[agg_type]: ...
RECURSIVE rows_by_kind(_, _)
rows_by_kind(ans, kinds) ==
    IF kinds = <<>> THEN <<>>
    ELSE LET mine == SelectSeq(ans, LAMBDA e : e.agg_type = kinds[1])
         IN  [r \in 1..Len(mine) |-> answer_row(mine[r])] \o
             rows_by_kind(ans, Tail(kinds))

\* The index between the 6-character prefix and the first underscore.
record_index(record) == record.agg_properties.name.index

\* sorted(data, key=record_index): stable.
RECURSIVE insert_by_index(_, _)
insert_by_index(r, s) ==
    IF s = <<>> THEN <<r>>
    ELSE IF record_index(r) < record_index(s[1]) THEN <<r>> \o s
    ELSE <<s[1]>> \o insert_by_index(r, Tail(s))

RECURSIVE sorted_by_index(_)
sorted_by_index(s) ==
    IF s = <<>> THEN <<>>
    ELSE insert_by_index(s[Len(s)], sorted_by_index(SubSeq(s, 1, Len(s) - 1)))

\* ------------------------------------------------------------------ run
TypeOK ==
    /\ settings \in Settings
    /\ pc \in {"generate", "sort", "done", "crashed"}
    /\ i \in 0..settings.num_records
    /\ exception \in {"none", "IndexError", "ValueError"}

Init ==
    /\ settings \in Settings
    /\ pc = "generate"
    /\ i = 0
    /\ answers = <<>>
    /\ data_file = <<>>
    /\ results_file = <<>>
    /\ exception = "none"

\* random.sample raises ValueError when the sample is larger than the
\* population; the script stops in iteration i.
SampleRaises ==
    /\ pc = "generate"
    /\ i < settings.num_records
    /\ settings.num_values >
         Cardinality(range(settings.value_lower_limit, settings.value_upper_limit))
    /\ pc' = "crashed"
    /\ exception' = "ValueError"
    /\ UNCHANGED <<settings, i, answers, data_file, results_file>>

\* One iteration of the record-generation loop (lines 52-118): agg_type is
\* the outcome of random.choice(aggregations), values the outcome of
\* random.sample(...).
GenerateRecord ==
    /\ pc = "generate"
    /\ i < settings.num_records
    /\ \E a \in 1..Len(settings.aggregations) :
       \E values \in random_sample(settings.value_lower_limit,
                                   settings.value_upper_limit,
                                   settings.num_values) :
          LET agg_type == settings.aggregations[a]
              p == agg_properties_of(i, agg_type)
              record == [agg_type |-> agg_type, values |-> values,
                         agg_properties |-> p]
              raised == chain_exception(agg_type, values)
          IN  /\ answers' = chain_answers(answers, agg_type, p, values,
                                          settings.num_values)
              /\ exception' = raised
              /\ IF raised = "none"
                 THEN /\ data_file' = Append(data_file, record)
                      /\ i' = i + 1
                      /\ pc' = pc
                 ELSE /\ data_file' = data_file
                      /\ i' = i
                      /\ pc' = "crashed"
    /\ UNCHANGED <<settings, results_file>>

\* The answer-file loop (lines 124-158): one row per entry of answers, in
\* dictionary order.
WriteAnswers ==
    /\ pc = "generate"
    /\ i = settings.num_records
    /\ results_file' = rows_by_kind(answers, kinds_in_order(answers, {}))
    /\ pc' = "sort"
    /\ UNCHANGED <<settings, i, answers, data_file, exception>>

\* Lines 161-181: read the rows back, sort them by index, rewrite the file.
SortResults ==
    /\ pc = "sort"
    /\ results_file' = sorted_by_index(results_file)
    /\ pc' = "done"
    /\ UNCHANGED <<settings, i, answers, data_file, exception>>

Next ==
    \/ GenerateRecord
    \/ SampleRaises
    \/ WriteAnswers
    \/ SortResults

Spec == Init /\ [][Next]_vars

\* =============================================================== properties
\* Entries of answers stored for data record rec, under rec's kind.
SummaryIdx(rec) ==
    {e \in 1..Len(answers) :
        /\ answers[e].agg_type = rec.agg_type
        /\ answers[e].agg_properties = rec.agg_properties}

\* Data records of the given kinds.
RecordsOf(kinds) ==
    {r \in 1..Len(data_file) : data_file[r].agg_type \in kinds}

Elements(V) == {V[j] : j \in 1..Len(V)}

\* Number of positions of V holding a value strictly below b.
NumberBelow(V, b) == Cardinality({j \in 1..Len(V) : V[j] < b})

\* C1: for a hist batch V and the boundaries b[0..N-1], bucket i < N is the
\* number of elements x of V with x < b[i] (strict, cumulative), and bucket N
\* is the number of elements of V.
C1_BucketsCountStrictlyBelow ==
    \A r \in RecordsOf({"hist"}) :
        LET V == data_file[r].values
            N == Len(histogram_boundaries)
        IN  /\ SummaryIdx(data_file[r]) # {}
            /\ \A e \in SummaryIdx(data_file[r]) :
                  /\ \A b \in 1..N :
                        answers[e].slots[3 + b] =
                            NumberBelow(V, histogram_boundaries[b])
                  /\ answers[e].slots[4 + N] = Len(V)

\* A hist batch with an element equal to a boundary and one below it.
C1_Witness ==
    \E r \in RecordsOf({"hist"}) :
        /\ -25 \in Elements(data_file[r].values)
        /\ -26 \in Elements(data_file[r].values)
        /\ \E e \in SummaryIdx(data_file[r]) :
              answers[e].slots[4] = 1 /\ answers[e].slots[5] = 2

\* Truncation toward zero of the rational num/den, den > 0.
TruncTowardZero(num, den) ==
    IF num >= 0 THEN num \div den ELSE 0 - ((0 - num) \div den)

\* Linear-interpolation percentile of V at fractional rank q/100 (q in
\* hundredths): fractional index q/100 * (n-1) into V sorted ascending,
\* truncated toward zero.
TruncatedQuantile(V, q) ==
    LET s == sort_ascending(V)
        n == Len(V)
        lo == (q * (n - 1)) \div 100
        rem == (q * (n - 1)) % 100
        hi == IF lo + 1 > n - 1 THEN n - 1 ELSE lo + 1
    IN  TruncTowardZero(100 * s[lo + 1] + (s[hi + 1] - s[lo + 1]) * rem, 100)

\* C2: for a dist batch V and each quantile q in [0.25, 0.5, 0.75], the
\* quantile slot is the linear-interpolation percentile of V at fractional
\* rank q, truncated toward zero ([1,2,3,4,5] gives 2, 3, 4).
C2_QuantilesAtFractionalRank ==
    \A r \in RecordsOf({"dist"}) :
        LET V == data_file[r].values
        IN  V # <<>> =>
              /\ SummaryIdx(data_file[r]) # {}
              /\ \A e \in SummaryIdx(data_file[r]) : \A k \in 1..3 :
                    answers[e].slots[7 + k] = TruncatedQuantile(V, quantiles[k])

\* C3: the hist batch [-50,-30,-10,0,10,30,50,5,15,-5] has the bucket
\* counts (< -25) = 1, (< 0) = 4, (< 25) = 8, (all) = 10.
C3_HistScenarioBuckets ==
    \A r \in RecordsOf({"hist"}) :
        data_file[r].values = HistScenario =>
            /\ SummaryIdx(data_file[r]) # {}
            /\ \A e \in SummaryIdx(data_file[r]) :
                  /\ answers[e].slots[4] = 1
                  /\ answers[e].slots[5] = 4
                  /\ answers[e].slots[6] = 8
                  /\ answers[e].slots[7] = 10

\* C3 (amended): the hist batch [-50,-30,-10,0,10,30,50,5,15,-5] has the
\* bucket counts (< -25) = 2 (both -50 and -30), (< 0) = 4, (< 25) = 8,
\* (all) = 10.
C3_HistScenarioBucketsAmended ==
    \A r \in RecordsOf({"hist"}) :
        data_file[r].values = HistScenario =>
            /\ SummaryIdx(data_file[r]) # {}
            /\ \A e \in SummaryIdx(data_file[r]) :
                  /\ answers[e].slots[4] = 2
                  /\ answers[e].slots[5] = 4
                  /\ answers[e].slots[6] = 8
                  /\ answers[e].slots[7] = 10

C3_Witness ==
    \E r \in RecordsOf({"hist"}) :
        /\ data_file[r].values = HistScenario
        /\ SummaryIdx(data_file[r]) # {}

\* An iteration of the generation loop has been started.
IterationStarted == i > 0 \/ pc = "crashed"

\* C4: for each of the five kinds, summarizing an empty batch ends in an
\* error state and stores no summary (never a record of zeros).
C4_EmptyBatchFails ==
    (settings.num_values = 0 /\ IterationStarted) =>
        (pc = "crashed" /\ exception # "none" /\ answers = <<>>)

\* C5: a record whose kind is not one of the five known kinds fails: no data
\* record is emitted for it.
C5_UnknownKindFails ==
    \A r \in 1..Len(data_file) : data_file[r].agg_type \in KnownKinds

\* C6: for a non-empty mmsc or dist batch V, min slot = minimum of V, max
\* slot = maximum of V, count slot = number of elements of V.
C6_MinMaxCount ==
    \A r \in RecordsOf({"mmsc", "dist"}) :
        LET V == data_file[r].values
        IN  V # <<>> =>
              /\ SummaryIdx(data_file[r]) # {}
              /\ \A e \in SummaryIdx(data_file[r]) :
                    LET s == answers[e].slots
                    IN  /\ s[1] \in Elements(V)
                        /\ \A x \in Elements(V) : s[1] <= x
                        /\ s[2] \in Elements(V)
                        /\ \A x \in Elements(V) : x <= s[2]
                        /\ s[3] = Len(V)

\* An mmsc batch and a dist batch of three values whose minimum and maximum
\* are neither first nor equal.
C6_Witness ==
    \E r \in RecordsOf({"mmsc", "dist"}) :
        LET V == data_file[r].values
        IN  /\ Len(V) = 3
            /\ V[2] < V[1]
            /\ V[1] < V[3]
            /\ \E e \in SummaryIdx(data_file[r]) :
                  /\ answers[e].slots[1] = V[2]
                  /\ answers[e].slots[2] = V[3]
                  /\ answers[e].slots[3] = 3

\* C7: for a non-empty lval batch V the final-value slot is the element at
\* the last position of V in sampling order.
C7_LastValueInSamplingOrder ==
    \A r \in RecordsOf({"lval"}) :
        LET V == data_file[r].values
        IN  V # <<>> =>
              /\ SummaryIdx(data_file[r]) # {}
              /\ \A e \in SummaryIdx(data_file[r]) :
                    answers[e].slots[0] = V[Len(V)]

\* An lval batch whose last element is neither its largest nor its first.
C7_Witness ==
    \E r \in RecordsOf({"lval"}) :
        LET V == data_file[r].values
        IN  /\ Len(V) >= 2
            /\ \E x \in Elements(V) : x > V[Len(V)]
            /\ V[1] # V[Len(V)]
            /\ \E e \in SummaryIdx(data_file[r]) :
                  answers[e].slots[0] = V[Len(V)]

\* C8: in every hist summary the four bucket counts are non-decreasing in
\* boundary order and the final bucket equals the count slot and the number
\* of elements of V.
C8_BucketsMonotone ==
    \A e \in 1..Len(answers) :
        answers[e].agg_type = "hist" =>
            LET s == answers[e].slots
            IN  /\ s[4] <= s[5]
                /\ s[5] <= s[6]
                /\ s[6] <= s[7]
                /\ s[7] = s[3]
                /\ \E r \in RecordsOf({"hist"}) :
                      /\ e \in SummaryIdx(data_file[r])
                      /\ s[7] = Len(data_file[r].values)

\* A hist summary whose buckets grow strictly up to the third boundary.
C8_Witness ==
    \E e \in 1..Len(answers) :
        /\ answers[e].agg_type = "hist"
        /\ answers[e].slots[4] < answers[e].slots[5]
        /\ answers[e].slots[5] < answers[e].slots[6]
        /\ answers[e].slots[3] > 0

\* C9: for a non-empty dist batch every stored quantile lies between the
\* stored min and max, and the three quantiles are non-decreasing in rank.
C9_QuantilesWithinRange ==
    \A r \in RecordsOf({"dist"}) :
        data_file[r].values # <<>> =>
            /\ SummaryIdx(data_file[r]) # {}
            /\ \A e \in SummaryIdx(data_file[r]) :
                  LET s == answers[e].slots
                  IN  /\ s[1] <= s[8]
                      /\ s[8] <= s[9]
                      /\ s[9] <= s[10]
                      /\ s[10] <= s[2]

\* A dist batch whose stored quantiles differ from the minimum and from
\* each other.
C9_Witness ==
    \E r \in RecordsOf({"dist"}) :
        \E e \in SummaryIdx(data_file[r]) :
            /\ answers[e].slots[1] < answers[e].slots[8]
            /\ answers[e].slots[8] < answers[e].slots[10]

\* Slots a kind writes.
KindSlots(k) ==
    IF k \in {"sum", "lval"} THEN {0}
    ELSE IF k = "mmsc" THEN {0, 1, 2, 3}
    ELSE IF k = "dist" THEN {0, 1, 2, 3, 8, 9, 10}
    ELSE IF k = "hist" THEN {0, 3, 4, 5, 6, 7}
    ELSE {}

\* Every slot outside the kind's own slots is at its default.
OtherSlotsDefault ==
    \A e \in 1..Len(answers) :
        \A j \in (0..10) \ KindSlots(answers[e].agg_type) :
            answers[e].slots[j] = 0

\* After the generation loop: exactly one summary per data record, stored
\* under the record's kind, and no other summary.
OneSummaryPerRecord ==
    pc \in {"sort", "done"} =>
        /\ Len(answers) = Len(data_file)
        /\ \A r \in 1..Len(data_file) :
              Cardinality(SummaryIdx(data_file[r])) = 1

\* Summaries stored for earlier records are left unchanged by a step.
EarlierSummariesKept ==
    \A e \in 1..Len(answers) :
        e <= Len(answers') /\ answers'[e] = answers[e]

\* C10: processing a record of kind K writes only K's slots of that record's
\* own summary, every other slot stays 0, earlier summaries are unchanged,
\* and after the generation loop there is exactly one summary per generated
\* record, stored under its kind.
C10_FrameAndOnePerRecord ==
    /\ [](OtherSlotsDefault /\ OneSummaryPerRecord)
    /\ [][EarlierSummariesKept]_vars

====
